---- MODULE Spec2Model ----
(***************************************************************************)
(* Binary merge of two ascending, duplicate-free sequences                 *)
(* (src/src/binary_merge.rs): the full engine MergeOperation::merge0 and   *)
(* the early-terminating engine ShortcutMergeOperation::merge0, run as an  *)
(* explicit call stack over a pair of slice views                          *)
(* (src/src/iterators.rs, SliceIterator).                                  *)
(***************************************************************************)
EXTENDS Integers, Sequences, FiniteSets, TLC

\* Keys are 1..MaxKey; an input is the ascending sequence of a subset of them.
MaxKey == 5

VARIABLES
    A,        \* backing storage of input a
    B,        \* backing storage of input b
    op,       \* the operation: engine variant, callback policy, abort rule
    apos,     \* elements dropped from the front of a's view (a_slice = A[apos..])
    bpos,     \* elements dropped from the front of b's view (b_slice = B[bpos..])
    out,      \* the accumulator of the merge state
    trace,    \* history: the callbacks invoked so far, with their arguments
    stack,    \* the merge0 call stack, innermost frame last
    ret,      \* EarlyOut value of the merge0 call that returned last
    status,   \* "init", "running", "done" (merge returned) or "panicked"
    ncalls,   \* history: number of merge0 invocations started
    aborted   \* history: some callback has returned None

vars == <<A, B, op, apos, bpos, out, trace, stack, ret, status, ncalls, aborted>>

----------------------------------------------------------------------------
(* Inputs *)

Range(s) == {s[i] : i \in 1..Len(s)}

Min(S) == CHOOSE x \in S : \A y \in S : x <= y

RECURSIVE SortedSeq(_)
SortedSeq(S) == IF S = {} THEN <<>>
                ELSE <<Min(S)>> \o SortedSeq(S \ {Min(S)})

Inputs == {SortedSeq(S) : S \in SUBSET (1..MaxKey)}

FullOps == {[variant |-> "full", policy |-> p, abortOn |-> "never"] :
               p \in {"union", "intersection", "record_only"}}

ShortcutOps == {[variant |-> "shortcut", policy |-> "union", abortOn |-> c] :
                   c \in {"never", "from_a", "from_b", "collision"}}

Consuming(o) == o.policy \in {"union", "intersection"}

----------------------------------------------------------------------------
(* Slice views *)

\* s[from..from+n) in 0-based terms, truncated at the end of the storage
Take(s, from, n) ==
    [i \in 1..(IF from + n <= Len(s) THEN n
               ELSE IF from <= Len(s) THEN Len(s) - from ELSE 0) |-> s[from + i]]

\* a_slice().len() / b_slice().len()
ALen(m) == Len(A) - m.a
BLen(m) == Len(B) - m.b

\* a_slice()[i] / b_slice()[i], 0-based; 0 stands for no element
AAt(m, i) == IF m.a + i + 1 \in 1..Len(A) THEN A[m.a + i + 1] ELSE 0
BAt(m, i) == IF m.b + i + 1 \in 1..Len(B) THEN B[m.b + i + 1] ELSE 0

\* SliceIterator::drop_front: self.0 = &self.0[n..]
drop_front(pos, n) == pos + n

\* SliceIterator::take_front: the first n elements, and the view advanced by n
take_front(s, pos, n) == [res |-> Take(s, pos, n), pos |-> pos + n]

----------------------------------------------------------------------------
(* Comparison and binary search *)

cmp(a, b) == IF a < b THEN "Less" ELSE IF a > b THEN "Greater" ELSE "Equal"

reverse(o) == IF o = "Less" THEN "Greater"
              ELSE IF o = "Greater" THEN "Less" ELSE "Equal"

SearchOrd_noreverse(a, b) == cmp(a, b)

\* the closure |b| self.cmp(a, b).reverse()
SearchOrd(a, b) == reverse(cmp(a, b))

\* slice::binary_search_by over b_slice()[..bn], window [lo, hi), 0-based:
\* Ok(i) is [found |-> TRUE, idx |-> i], Err(i) is [found |-> FALSE, idx |-> i]
RECURSIVE binary_search_by(_, _, _, _)
binary_search_by(m, a, lo, hi) ==
    IF lo >= hi THEN [found |-> FALSE, idx |-> lo]
    ELSE LET mid == lo + ((hi - lo) \div 2)
             c   == SearchOrd(a, BAt(m, mid))
         IN  IF c = "Equal" THEN [found |-> TRUE, idx |-> mid]
             ELSE IF c = "Less" THEN binary_search_by(m, a, mid + 1, hi)
             ELSE binary_search_by(m, a, lo, mid)

----------------------------------------------------------------------------
(* Index arithmetic of merge0 *)

Am_whole(an) == an

\* let am: usize = an / 2
Am(an) == an \div 2

SuffixAn_keep_pivot(an, am) == an - am

\* an - am - 1
SuffixAn(an, am) == an - am - 1

SuffixBn_always_skip(bn, idx, found) == bn - idx - 1

\* bn - bm - 1 after Ok(bm), bn - bi after Err(bi)
SuffixBn(bn, idx, found) == IF found THEN bn - idx - 1 ELSE bn - idx

\* the slice accesses m.a_slice()[am] and m.b_slice()[..bn] panic out of range
SplitPanics(m, an, bn) == Am(an) >= ALen(m) \/ bn > BLen(m)

----------------------------------------------------------------------------
(* Callbacks of the operation, on the merge state                          *)
(* m = [a, b, out, ev]: the two view offsets, the accumulator, the history *)

Event(cb, n, m) == [cb |-> cb, n |-> n, apos |-> m.a, bpos |-> m.b]

\* a callback reading or dropping more than the view holds panics
CbPanics(cb, n, m) ==
    \/ cb \in {"from_a", "collision"} /\ n > ALen(m)
    \/ cb \in {"from_b", "collision"} /\ n > BLen(m)

from_a(p, m, n) ==
    LET t == take_front(A, m.a, n)
        e == Append(m.ev, Event("from_a", n, m))
    IN  IF p = "union"
          THEN [a |-> t.pos, b |-> m.b, out |-> m.out \o t.res, ev |-> e]
        ELSE IF p = "intersection"
          THEN [a |-> drop_front(m.a, n), b |-> m.b, out |-> m.out, ev |-> e]
        ELSE [a |-> m.a, b |-> m.b, out |-> m.out \o t.res, ev |-> e]

from_b(p, m, n) ==
    LET t == take_front(B, m.b, n)
        e == Append(m.ev, Event("from_b", n, m))
    IN  IF p = "union"
          THEN [a |-> m.a, b |-> t.pos, out |-> m.out \o t.res, ev |-> e]
        ELSE IF p = "intersection"
          THEN [a |-> m.a, b |-> drop_front(m.b, n), out |-> m.out, ev |-> e]
        ELSE [a |-> m.a, b |-> m.b, out |-> m.out \o t.res, ev |-> e]

collision(p, m) ==
    LET t == take_front(A, m.a, 1)
        e == Append(m.ev, Event("collision", 1, m))
    IN  IF p \in {"union", "intersection"}
          THEN [a |-> t.pos, b |-> drop_front(m.b, 1),
                out |-> m.out \o t.res, ev |-> e]
        ELSE [a |-> m.a, b |-> m.b, out |-> m.out \o t.res, ev |-> e]

Callback(p, cb, m, n) ==
    IF cb = "from_a" THEN from_a(p, m, n)
    ELSE IF cb = "from_b" THEN from_b(p, m, n)
    ELSE collision(p, m)

\* the EarlyOut a callback of the short-circuit operation returns
Signal(o, cb) == IF o.abortOn = cb THEN "None" ELSE "Some"

EngineAdvance_after_callback(cb, n) ==
    [a |-> IF cb = "from_a" THEN n ELSE IF cb = "collision" THEN 1 ELSE 0,
     b |-> IF cb = "from_b" THEN n ELSE IF cb = "collision" THEN 1 ELSE 0]

\* what merge0 itself does to the views once a callback has returned:
\* nothing, the next statement is the next recursive call or the return
EngineAdvance(cb, n) == [a |-> 0, b |-> 0]

Propagates_never(r) == FALSE

\* the ? operator: a None leaves the enclosing merge0 at once
Propagates(r) == r = "None"

----------------------------------------------------------------------------
(* State *)

M == [a |-> apos, b |-> bpos, out |-> out, ev |-> trace]

Top == stack[Len(stack)]
Pop == SubSeq(stack, 1, Len(stack) - 1)

Frame(an, bn) == [an |-> an, bn |-> bn, pc |-> "start", found |-> FALSE,
                  idx |-> 0, a0 |-> apos, b0 |-> bpos]

Init ==
    /\ A \in Inputs
    /\ B \in Inputs
    /\ op \in FullOps \cup ShortcutOps
    /\ apos = 0
    /\ bpos = 0
    /\ out = <<>>
    /\ trace = <<>>
    /\ stack = <<>>
    /\ ret = "pending"
    /\ status = "init"
    /\ ncalls = 0
    /\ aborted = FALSE

\* merge: merge0(m, a_slice().len(), b_slice().len()), in both traits
Merge ==
    /\ status = "init"
    /\ stack' = <<Frame(ALen(M), BLen(M))>>
    /\ status' = "running"
    /\ ncalls' = 1
    /\ UNCHANGED <<A, B, op, apos, bpos, out, trace, ret, aborted>>

Panic ==
    /\ status' = "panicked"
    /\ UNCHANGED <<A, B, op, apos, bpos, out, trace, stack, ret, ncalls, aborted>>

\* the callback runs on the merge state, then control is back in merge0
Invoke(cb, n) ==
    LET m2 == Callback(op.policy, cb, M, n)
        e  == EngineAdvance(cb, n)
    IN  /\ apos' = m2.a + e.a
        /\ bpos' = m2.b + e.b
        /\ out' = m2.out
        /\ trace' = m2.ev

\* the current merge0 returns r to its caller; the root returns to merge
Return(r) ==
    /\ stack' = Pop
    /\ ret' = r
    /\ status' = IF Len(stack) = 1 THEN "done" ELSE status

\* the pivot search of a frame with an > 0 and bn > 0, and the first descent
Split ==
    LET f  == Top
        am == Am(f.an)
        r  == binary_search_by(M, AAt(M, am), 0, f.bn)
    IN  IF SplitPanics(M, f.an, f.bn) THEN Panic
        ELSE /\ stack' = Append(
                    [stack EXCEPT ![Len(stack)] =
                        [f EXCEPT !.pc = "prefix", !.found = r.found, !.idx = r.idx]],
                    Frame(am, r.idx))
             /\ ncalls' = ncalls + 1
             /\ ret' = "pending"
             /\ UNCHANGED <<A, B, op, apos, bpos, out, trace, status, aborted>>

\* the second descent, after the pivot's callback
Descend ==
    LET f == Top
    IN  /\ stack' = Append(
               [stack EXCEPT ![Len(stack)] = [f EXCEPT !.pc = "suffix"]],
               Frame(SuffixAn(f.an, Am(f.an)), SuffixBn(f.bn, f.idx, f.found)))
        /\ ncalls' = ncalls + 1
        /\ ret' = "pending"
        /\ UNCHANGED <<A, B, op, apos, bpos, out, trace, status, aborted>>

Running(v) == status = "running" /\ op.variant = v /\ stack # <<>>

----------------------------------------------------------------------------
(* MergeOperation::merge0 *)

\* an == 0 and bn == 0: nothing to do
F_Empty ==
    /\ Running("full") /\ Top.pc = "start" /\ Top.an = 0 /\ Top.bn = 0
    /\ Return("unit")
    /\ UNCHANGED <<A, B, op, apos, bpos, out, trace, ncalls, aborted>>

F_FromB_one_by_one ==
    /\ Running("full") /\ Top.pc = "start" /\ Top.an = 0 /\ Top.bn > 0
    /\ IF CbPanics("from_b", 1, M) THEN Panic
       ELSE /\ Invoke("from_b", 1)
            /\ IF Top.bn = 1
                 THEN Return("unit")
                 ELSE /\ stack' = [stack EXCEPT ![Len(stack)].bn = Top.bn - 1]
                      /\ UNCHANGED <<ret, status>>
            /\ UNCHANGED <<A, B, op, ncalls, aborted>>

\* an == 0, bn > 0: self.from_b(m, bn)
F_FromB ==
    /\ Running("full") /\ Top.pc = "start" /\ Top.an = 0 /\ Top.bn > 0
    /\ IF CbPanics("from_b", Top.bn, M) THEN Panic
       ELSE /\ Invoke("from_b", Top.bn)
            /\ Return("unit")
            /\ UNCHANGED <<A, B, op, ncalls, aborted>>

\* bn == 0, an > 0: self.from_a(m, an)
F_FromA ==
    /\ Running("full") /\ Top.pc = "start" /\ Top.an > 0 /\ Top.bn = 0
    /\ IF CbPanics("from_a", Top.an, M) THEN Panic
       ELSE /\ Invoke("from_a", Top.an)
            /\ Return("unit")
            /\ UNCHANGED <<A, B, op, ncalls, aborted>>

\* neither is 0: pick a[am], search it in b[..bn], self.merge0(m, am, bm|bi)
F_Split ==
    /\ Running("full") /\ Top.pc = "start" /\ Top.an > 0 /\ Top.bn > 0
    /\ Split

\* back from the first descent: self.collision(m) or self.from_a(m, 1)
F_Pivot ==
    /\ Running("full") /\ Top.pc = "prefix"
    /\ LET cb == IF Top.found THEN "collision" ELSE "from_a"
       IN  IF CbPanics(cb, 1, M) THEN Panic
           ELSE /\ Invoke(cb, 1)
                /\ stack' = [stack EXCEPT ![Len(stack)].pc = "descend"]
                /\ UNCHANGED <<A, B, op, ret, status, ncalls, aborted>>

\* self.merge0(m, an - am - 1, bn - bm - 1) or self.merge0(m, an - am - 1, bn - bi)
F_Descend ==
    /\ Running("full") /\ Top.pc = "descend"
    /\ Descend

\* back from the second descent: merge0 returns
F_Return ==
    /\ Running("full") /\ Top.pc = "suffix"
    /\ Return("unit")
    /\ UNCHANGED <<A, B, op, apos, bpos, out, trace, ncalls, aborted>>

----------------------------------------------------------------------------
(* ShortcutMergeOperation::merge0 *)

\* an == 0 and bn == 0: falls through to Some(())
S_Empty ==
    /\ Running("shortcut") /\ Top.pc = "start" /\ Top.an = 0 /\ Top.bn = 0
    /\ Return("Some")
    /\ UNCHANGED <<A, B, op, apos, bpos, out, trace, ncalls, aborted>>

\* an == 0, bn > 0: self.from_b(m, bn)?
S_FromB ==
    /\ Running("shortcut") /\ Top.pc = "start" /\ Top.an = 0 /\ Top.bn > 0
    /\ IF CbPanics("from_b", Top.bn, M) THEN Panic
       ELSE LET r == Signal(op, "from_b")
            IN  /\ Invoke("from_b", Top.bn)
                /\ Return(IF Propagates(r) THEN "None" ELSE "Some")
                /\ aborted' = (aborted \/ r = "None")
                /\ UNCHANGED <<A, B, op, ncalls>>

\* bn == 0, an > 0: self.from_a(m, an)?
S_FromA ==
    /\ Running("shortcut") /\ Top.pc = "start" /\ Top.an > 0 /\ Top.bn = 0
    /\ IF CbPanics("from_a", Top.an, M) THEN Panic
       ELSE LET r == Signal(op, "from_a")
            IN  /\ Invoke("from_a", Top.an)
                /\ Return(IF Propagates(r) THEN "None" ELSE "Some")
                /\ aborted' = (aborted \/ r = "None")
                /\ UNCHANGED <<A, B, op, ncalls>>

\* neither is 0: pick a[am], search it in b[..bn], self.merge0(m, am, bm|bi)
S_Split ==
    /\ Running("shortcut") /\ Top.pc = "start" /\ Top.an > 0 /\ Top.bn > 0
    /\ Split

\* the pivot's callback of the short-circuit engine, and its ?
PivotStep ==
    LET cb == IF Top.found THEN "collision" ELSE "from_a"
        r  == Signal(op, cb)
    IN  IF CbPanics(cb, 1, M) THEN Panic
        ELSE /\ Invoke(cb, 1)
             /\ aborted' = (aborted \/ r = "None")
             /\ IF Propagates(r)
                  THEN /\ Return("None")
                  ELSE /\ stack' = [stack EXCEPT ![Len(stack)].pc = "descend"]
                       /\ UNCHANGED <<ret, status>>
             /\ UNCHANGED <<A, B, op, ncalls>>

S_PrefixAbort_ignored ==
    /\ Running("shortcut") /\ Top.pc = "prefix" /\ Propagates(ret)
    /\ PivotStep

\* self.merge0(m, am, bm|bi)? came back None: leave with None
S_PrefixAbort ==
    /\ Running("shortcut") /\ Top.pc = "prefix" /\ Propagates(ret)
    /\ Return("None")
    /\ UNCHANGED <<A, B, op, apos, bpos, out, trace, ncalls, aborted>>

\* it came back Some: self.collision(m)? or self.from_a(m, 1)?
S_Pivot ==
    /\ Running("shortcut") /\ Top.pc = "prefix" /\ ~Propagates(ret)
    /\ PivotStep

\* self.merge0(m, an - am - 1, bn - bm - 1) or self.merge0(m, an - am - 1, bn - bi)
S_Descend ==
    /\ Running("shortcut") /\ Top.pc = "descend"
    /\ Descend

\* the second descent came back None: leave with None
S_SuffixAbort ==
    /\ Running("shortcut") /\ Top.pc = "suffix" /\ Propagates(ret)
    /\ Return("None")
    /\ UNCHANGED <<A, B, op, apos, bpos, out, trace, ncalls, aborted>>

\* it came back Some: Some(())
S_Return ==
    /\ Running("shortcut") /\ Top.pc = "suffix" /\ ~Propagates(ret)
    /\ Return("Some")
    /\ UNCHANGED <<A, B, op, apos, bpos, out, trace, ncalls, aborted>>

----------------------------------------------------------------------------
(* Specification *)

Next ==
    \/ Merge
    \/ F_Empty \/ F_FromB \/ F_FromA \/ F_Split \/ F_Pivot \/ F_Descend \/ F_Return
    \/ S_Empty \/ S_FromB \/ S_FromA \/ S_Split \/ S_PrefixAbort \/ S_Pivot
    \/ S_Descend \/ S_SuffixAbort \/ S_Return

Spec == Init /\ [][Next]_vars

\* merge is a synchronous call: a started call keeps running until it returns
FairSpec == Spec /\ WF_vars(Next)

----------------------------------------------------------------------------
(* MergeOperation::merge0 as a function of the merge state, for comparing  *)
(* a whole run of the full engine with a run of the short-circuit engine   *)

RECURSIVE merge0(_, _, _, _)
merge0(p, m, an, bn) ==
    IF an = 0 THEN (IF bn > 0 THEN from_b(p, m, bn) ELSE m)
    ELSE IF bn = 0 THEN from_a(p, m, an)
    ELSE LET am == Am(an)
             r  == binary_search_by(m, AAt(m, am), 0, bn)
             m1 == merge0(p, m, am, r.idx)
             m2 == IF r.found THEN collision(p, m1) ELSE from_a(p, m1, 1)
         IN  merge0(p, m2, SuffixAn(an, am), SuffixBn(bn, r.idx, r.found))

merge(p) ==
    LET m == [a |-> 0, b |-> 0, out |-> <<>>, ev |-> <<>>]
    IN  merge0(p, m, ALen(m), BLen(m))

TypeOK ==
    /\ apos \in 0..Len(A) /\ bpos \in 0..Len(B)
    /\ status \in {"init", "running", "done", "panicked"}
    /\ ret \in {"pending", "unit", "Some", "None"}
    /\ status = "done" => stack = <<>>

\* the run of the full engine is the function above
FullRunIsMerge0 ==
    (op.variant = "full" /\ status = "done")
        => M = merge(op.policy)

----------------------------------------------------------------------------
(* Properties *)

Keys(s) == Range(s)
Shared == Keys(A) \cap Keys(B)

CountCb(ev, cb) == Cardinality({i \in 1..Len(ev) : ev[i].cb = cb})

\* the collisions of a history that matched key k of both inputs
CollisionsOn(ev, k) ==
    {i \in 1..Len(ev) : /\ ev[i].cb = "collision"
                        /\ AAt([a |-> ev[i].apos], 0) = k
                        /\ BAt([b |-> ev[i].bpos], 0) = k}

FullDone(p) == op.variant = "full" /\ op.policy = p /\ status = "done"

\* C1: a union-policy run of MergeOperation::merge leaves the ascending
\* sequence of all keys of A and B, each once, and has invoked collision
\* exactly once for every key that is in both A and B, and for nothing else.
C1_Union ==
    FullDone("union") =>
        /\ out = SortedSeq(Keys(A) \cup Keys(B))
        /\ \A k \in Shared : Cardinality(CollisionsOn(trace, k)) = 1
        /\ CountCb(trace, "collision") = Cardinality(Shared)

C1_Witness ==
    /\ FullDone("union")
    /\ Shared # {} /\ Keys(A) \ Keys(B) # {} /\ Keys(B) \ Keys(A) # {}
    /\ Len(A) >= 3 /\ Len(B) >= 2

\* C2: an intersection-policy run of MergeOperation::merge leaves exactly
\* the keys that are in both A and B, each once, in ascending order.
C2_Intersection ==
    FullDone("intersection") => out = SortedSeq(Shared)

C2_Witness ==
    /\ FullDone("intersection")
    /\ Cardinality(Shared) >= 2
    /\ Keys(A) \ Keys(B) # {} /\ Keys(B) \ Keys(A) # {}

\* C3: in the short-circuit engine, the step in which a callback returns
\* None returns None from its merge0 frame, and every later step only
\* returns None from the next enclosing frame: no callback, no new merge0
\* call, no change of the views or the accumulator.
C3_AbortStops ==
    [][/\ (~aborted /\ aborted') => (stack' = Pop /\ ret' = "None")
       /\ aborted => /\ stack' = Pop /\ ret' = "None"
                     /\ trace' = trace /\ ncalls' = ncalls
                     /\ apos' = apos /\ bpos' = bpos /\ out' = out]_vars

C3_Witness ==
    /\ aborted /\ status = "running" /\ Len(stack) >= 2 /\ ret = "None"
    /\ Len(trace) >= 2

FirstCollision(ev) == Min({i \in 1..Len(ev) : ev[i].cb = "collision"})

AbortsOnCollision == op.variant = "shortcut" /\ op.abortOn = "collision"

\* C4: with inputs that share a key, the short-circuit engine whose collision
\* aborts invokes the callbacks the full engine invokes on the same inputs,
\* with the same arguments at the same view positions, up to and including
\* the full engine's first collision (the one on the least shared key), and
\* has invoked exactly those when merge returns.
C4_ShortcutPrefix ==
    (AbortsOnCollision /\ Shared # {}) =>
        LET full == merge(op.policy).ev
            k    == FirstCollision(full)
        IN  /\ Len(trace) <= k
            /\ trace = SubSeq(full, 1, Len(trace))
            /\ status = "done" =>
                 /\ Len(trace) = k
                 /\ AAt([a |-> trace[k].apos], 0) = Min(Shared)

C4_Witness ==
    /\ AbortsOnCollision /\ Shared # {} /\ status = "done"
    /\ Len(trace) >= 3
    /\ Len(merge(op.policy).ev) > Len(trace)

\* C5: merging A against itself with MergeOperation::merge invokes nothing
\* but collision, once for each element of A.
C5_SelfMerge ==
    (op.variant = "full" /\ A = B) =>
        /\ \A i \in 1..Len(trace) : trace[i].cb = "collision"
        /\ status = "done" => Len(trace) = Len(A)
        /\ Consuming(op) =>
             \A i \in 1..Len(trace) : trace[i].apos = i - 1 /\ trace[i].bpos = i - 1

C5_Witness ==
    op.variant = "full" /\ A = B /\ Len(A) >= 3 /\ status = "done"

\* C6: with A empty, MergeOperation::merge makes the one merge0 call and no
\* recursive one; it invokes from_b(bn) once and nothing else when B holds
\* bn > 0 elements, and no callback when B is empty too.
C6_EmptyA ==
    (op.variant = "full" /\ A = <<>>) =>
        /\ ncalls <= 1 /\ Len(stack) <= 1
        /\ status # "done" => trace = <<>>
        /\ status = "done" =>
             trace = IF B = <<>> THEN <<>>
                     ELSE <<[cb |-> "from_b", n |-> Len(B), apos |-> 0, bpos |-> 0]>>

C6_Witness ==
    op.variant = "full" /\ A = <<>> /\ Len(B) >= 2 /\ status = "done"

\* the number of elements callback cb(n) is announced to cover in a and in b
AnnouncedA(e) == IF e.cb = "from_a" THEN e.n ELSE IF e.cb = "collision" THEN 1 ELSE 0
AnnouncedB(e) == IF e.cb = "from_b" THEN e.n ELSE IF e.cb = "collision" THEN 1 ELSE 0

CallbackStep == Len(trace') = Len(trace) + 1
LastEvent == trace'[Len(trace')]

\* C7 as stated: whatever the callback does, once from_a(n) has returned a's
\* view is advanced by n, b's by n after from_b(n), both by 1 after collision.
C7_EngineAdvances ==
    [][CallbackStep => /\ apos' = apos + AnnouncedA(LastEvent)
                       /\ bpos' = bpos + AnnouncedB(LastEvent)]_vars

\* C7 amended: the engine does not move the views; after a callback returns
\* each view is advanced by what the callback itself consumed: the announced
\* number for a callback that consumes it, nothing for one that only records.
C7_CallbackAdvances ==
    [][CallbackStep =>
         /\ apos' = apos + (IF Consuming(op) THEN AnnouncedA(LastEvent) ELSE 0)
         /\ bpos' = bpos + (IF Consuming(op) THEN AnnouncedB(LastEvent) ELSE 0)]_vars

C7_Witness ==
    /\ op.variant = "full" /\ op.policy = "record_only"
    /\ \E i \in 1..Len(trace) : trace[i].cb = "from_a" /\ trace[i].n >= 2
    /\ apos = 0 /\ bpos = 0

\* C8: with callbacks that consume what is announced, a merge0(an, bn) of
\* the full engine returns with exactly an elements of a's view and bn of
\* b's view, as they stood at its entry, consumed; views only shrink from
\* the front, and only in a callback.
C8_SubtreeConsumes ==
    [][(op.variant = "full" /\ Consuming(op)) =>
         /\ Len(stack') < Len(stack) =>
              /\ apos' = Top.a0 + Top.an
              /\ bpos' = Top.b0 + Top.bn
         /\ (apos' # apos \/ bpos' # bpos) =>
              /\ CallbackStep
              /\ apos' >= apos /\ bpos' >= bpos]_vars

C8_Witness ==
    /\ op.variant = "full" /\ Consuming(op) /\ status = "running"
    /\ Len(stack) >= 2 /\ Top.pc = "suffix"
    /\ Top.an >= 2 /\ Top.bn >= 2
    /\ apos = Top.a0 + Top.an /\ bpos = Top.b0 + Top.bn

InRange(e) ==
    /\ AnnouncedA(e) <= Len(A) - e.apos
    /\ AnnouncedB(e) <= Len(B) - e.bpos

\* C9: with callbacks that consume what is announced, neither engine asks a
\* view for more than it holds: no slice access panics, every merge0(an, bn)
\* is entered with an and bn within the remaining views (so the pivot an/2
\* is in range when an > 0), and every callback covers elements that remain.
C9_InRange ==
    Consuming(op) =>
        /\ status # "panicked"
        /\ (stack # <<>> /\ Top.pc = "start") =>
             /\ Top.an <= Len(A) - apos
             /\ Top.bn <= Len(B) - bpos
             /\ Top.an > 0 => (Top.an \div 2) < Len(A) - apos
        /\ \A i \in 1..Len(trace) : InRange(trace[i])

C9_Witness ==
    /\ op.variant = "shortcut" /\ op.abortOn = "never" /\ status = "done"
    /\ Len(A) >= 3 /\ Len(B) >= 3 /\ Len(trace) >= 4

\* C10: every recursive merge0 call gets an A-segment at most half of its
\* caller's, so strictly shorter, and every call of merge returns.
C10_Terminates ==
    /\ [](\A i \in 2..Len(stack) :
             /\ stack[i].an < stack[i - 1].an
             /\ 2 * stack[i].an <= stack[i - 1].an)
    /\ <>(status = "done")

C10_Witness ==
    Len(stack) >= 3 /\ Top.an >= 1 /\ Top.bn >= 1

====
